---------------------------- MODULE Spec2Model ----------------------------
(***************************************************************************)
(* SubSmart: the billing-date recurrence engine (utils.ts) and the        *)
(* reminder list of the application shell (App.tsx).                       *)
(*                                                                         *)
(* A Date is modelled by its local wall-clock fields                       *)
(*   [y |-> year, m |-> month index 0..11, d |-> day, t |-> hour],         *)
(* with t = EndOfDay standing for 23:59:59.999.  A firstBillDate string    *)
(* "YYYY-MM-DD" is the tuple <<year, month index, day>>, the empty string  *)
(* the empty tuple.  The time zone is a fixed offset of tz hours from UTC  *)
(* (no daylight-saving transitions).                                       *)
(***************************************************************************)
EXTENDS Integers, Sequences, FiniteSets, TLC

VARIABLES
    tz,        \* the environment's offset from UTC, in hours
    now,       \* the value of new Date() during the session
    op,        \* the recurrence function called last ("none" before any call)
    sub,       \* the subscription passed to that call
    anchor,    \* the currentMonth passed to getBillDatesInMonth
    ret,       \* what the call returned, with its loop counters
    subscriptions,  \* App: the subscription collection
    isFormOpen,     \* App: whether the subscription form is shown
    editingSub,     \* App: <<>> for undefined, <<data>> for the data being edited
    formData,       \* SubscriptionForm: the fields of the form
    uuid,           \* the number of identifiers uuidv4 has handed out
    mounted,           \* App: whether the first render has happened
    upcomingSubs,      \* App: the memo of the reminder list
    isSmartModalOpen,  \* App: whether the smart-add modal is shown
    isLoading,         \* SmartAddModal: whether a parse request is pending
    permission,        \* Notification.permission
    notification,      \* the notifications the last step created
    input,             \* SmartAddModal: the text typed, a sequence of characters
    error,             \* SmartAddModal: the error message shown
    parseRequests,     \* the parseSubscriptionInput requests that have not settled
    storage,           \* localStorage: the item stored under LOCAL_STORAGE_KEY
    aiInsights,        \* App: the insight shown
    insightRequests,   \* the getSpendingInsights requests that have not settled
    seen,              \* an earlier call of a recurrence function, with its result
    apiKey,            \* geminiService: whether process.env.API_KEY is set
    confirmAnswer      \* <<b>> when window.confirm returned b in the last step

envVars == <<tz, now, apiKey>>

callVars == <<op, sub, anchor, ret>>

formVars == <<isFormOpen, editingSub, formData>>

modalVars == <<isSmartModalOpen, isLoading, input, error, parseRequests>>

insightVars == <<aiInsights, insightRequests>>

appVars ==
    <<mounted, subscriptions, upcomingSubs, uuid, formVars, modalVars,
      permission, notification, confirmAnswer, storage, insightVars>>

vars == <<envVars, callVars, appVars, seen>>

----------------------------------------------------------------------------
(* Bounds of the model *)

\* the most requests to the model that are pending together
MaxRequests == 2

\* the latest calendar year a queried month is drawn from
MaxYear == 2025

\* the length up to which the user adds subscriptions in one session
MaxSubs == 2

\* the identifiers uuidv4 hands out in one session
MaxUuid == 2

\* the passes the model grants a loop; every loop leaves by itself before
\* they run out (the field exited of BillDatesRun, and NextExited)
Fuel == 16384

----------------------------------------------------------------------------
(* Program constants *)

MONTHLY == "MONTHLY"
YEARLY == "YEARLY"
WEEKLY == "WEEKLY"

BillingCycle == {MONTHLY, YEARLY, WEEKLY}

\* the hour mark of 23:59:59.999, after every whole hour of the same day
EndOfDay == 24

NextDateCap == 1000
MonthlyCap == 24
WeeklyCap == 10000

----------------------------------------------------------------------------
(* The Gregorian calendar, as the JavaScript Date object keeps it *)

IsLeap(y) == (y % 4 = 0 /\ y % 100 # 0) \/ y % 400 = 0

DaysInMonth(y, m) ==
    IF m = 1 THEN (IF IsLeap(y) THEN 29 ELSE 28)
    ELSE IF m \in {3, 5, 8, 10} THEN 30
    ELSE 31

RECURSIVE DaysBeforeMonth(_, _)
DaysBeforeMonth(y, m) ==
    IF m = 0 THEN 0 ELSE DaysBeforeMonth(y, m - 1) + DaysInMonth(y, m - 1)

\* the number of the local calendar day (day 1 is 0001-01-01)
DayNumber(dt) ==
    LET p == dt.y - 1
    IN  365 * p + (p \div 4) - (p \div 100) + (p \div 400)
          + DaysBeforeMonth(dt.y, dt.m) + dt.d

\* new Date(y, m, d, t): a month outside 0..11 carries into the year, a day
\* past the end of the month carries into the following months
RECURSIVE CarryDays(_, _, _, _)
CarryDays(y, m, d, t) ==
    IF d > DaysInMonth(y, m)
    THEN CarryDays(IF m = 11 THEN y + 1 ELSE y, (m + 1) % 12,
                   d - DaysInMonth(y, m), t)
    ELSE IF d < 1
    THEN LET py == IF m = 0 THEN y - 1 ELSE y
             pm == (m + 11) % 12
         IN  CarryDays(py, pm, d + DaysInMonth(py, pm), t)
    ELSE [y |-> y, m |-> m, d |-> d, t |-> t]

MakeDate(y, m, d, t) ==
    LET tm == y * 12 + m
    IN  CarryDays(tm \div 12, tm % 12, d, t)

setFullYear(dt, y) == MakeDate(y, dt.m, dt.d, dt.t)

setMonth(dt, m) == MakeDate(dt.y, m, dt.d, dt.t)

----------------------------------------------------------------------------
(* date-fns *)

isBefore(a, b) ==
    \/ a.y < b.y
    \/ a.y = b.y /\ a.m < b.m
    \/ a.y = b.y /\ a.m = b.m /\ a.d < b.d
    \/ a.y = b.y /\ a.m = b.m /\ a.d = b.d /\ a.t < b.t

isSameMonth(a, b) == a.y = b.y /\ a.m = b.m

endOfMonth(dt) ==
    [y |-> dt.y, m |-> dt.m, d |-> DaysInMonth(dt.y, dt.m), t |-> EndOfDay]

\* the day of the month is kept unless the target month is shorter
addMonths(dt, n) ==
    LET tm  == dt.y * 12 + dt.m + n
        y2  == tm \div 12
        m2  == tm % 12
        dim == DaysInMonth(y2, m2)
    IN  [y |-> y2, m |-> m2, d |-> IF dt.d >= dim THEN dim ELSE dt.d, t |-> dt.t]

addYears(dt, n) == addMonths(dt, n * 12)

addDays(dt, n) == MakeDate(dt.y, dt.m, dt.d + n, dt.t)

addWeeks(dt, n) == addDays(dt, n * 7)

differenceInCalendarDays(a, b) == DayNumber(a) - DayNumber(b)

----------------------------------------------------------------------------
(* utils.ts: the helpers *)

\* new Date("YYYY-MM-DD") is midnight UTC of that day, read here in local time
parseISO(str) ==
    IF tz >= 0
    THEN MakeDate(str[1], str[2], str[3], tz)
    ELSE MakeDate(str[1], str[2], str[3] - 1, 24 + tz)

startOfToday == [now EXCEPT !.t = 0]

startOfMonth(dt) == [y |-> dt.y, m |-> dt.m, d |-> 1, t |-> 0]

----------------------------------------------------------------------------
(* utils.ts: getNextBillingDate *)

\* one pass of the loop body: an unknown billing cycle leaves the date alone
NextBody(s, st) ==
    [nextDate |-> IF s.billingCycle = MONTHLY THEN addMonths(st.nextDate, 1)
                  ELSE IF s.billingCycle = YEARLY THEN addYears(st.nextDate, 1)
                  ELSE IF s.billingCycle = WEEKLY THEN addWeeks(st.nextDate, 1)
                  ELSE st.nextDate,
     iterations |-> st.iterations + 1]

\* mutant: the loop compares with the current instant, not with the start of today
NextGuardNow(st) ==
    isBefore(st.nextDate, now) /\ st.iterations < NextDateCap

\* mutant: the loop has lost its counter
NextGuardNoCap(st) == isBefore(st.nextDate, startOfToday)

NextGuard(st) ==
    isBefore(st.nextDate, startOfToday) /\ st.iterations < NextDateCap

\* while (NextGuard) NextBody, run for at most n passes; the passes are split
\* in halves so that the evaluation nests only logarithmically deep
RECURSIVE NextLoop(_, _, _)
NextLoop(s, st, n) ==
    IF ~NextGuard(st) THEN st
    ELSE IF n <= 1 THEN NextBody(s, st)
    ELSE NextLoop(s, NextLoop(s, st, n \div 2), n - (n \div 2))

\* mutant: iterations is a counter that outlives the call
NextStartKeptCounter(s) ==
    [nextDate |-> parseISO(s.firstBillDate),
     iterations |-> IF op = "getNextBillingDate" THEN ret.iterations ELSE 0]

\* let nextDate = start; let iterations = 0
NextStart(s) == [nextDate |-> parseISO(s.firstBillDate), iterations |-> 0]

\* the loop's final nextDate and iterations
NextRun(s) == NextLoop(s, NextStart(s), Fuel)

\* mutant: the date reached is returned even when the cap stopped the loop
getNextBillingDateNoFallback(s) ==
    IF s.firstBillDate = <<>> THEN now ELSE NextRun(s).nextDate

\* mutant: a missing firstBillDate falls back to the first day of the month
getNextBillingDateMonthFallback(s) ==
    IF s.firstBillDate = <<>> THEN startOfMonth(now)
    ELSE LET st == NextRun(s)
         IN  IF st.iterations >= NextDateCap THEN startOfToday
             ELSE st.nextDate

getNextBillingDate(s) ==
    IF s.firstBillDate = <<>> THEN now
    ELSE LET st == NextRun(s)
         IN  IF st.iterations >= NextDateCap THEN startOfToday
             ELSE st.nextDate

getDaysRemaining(date) == differenceInCalendarDays(date, startOfToday)

----------------------------------------------------------------------------
(* utils.ts: generateReminderMessage *)

\* the three due-status phrases of the template
TodayText == <<"today">>

OverdueText == <<"overdue">>

InDaysText(n) == <<n, "days later">>

\* mutant: zero days left counts as overdue
dueTextOverdueFirst(daysLeft) ==
    IF daysLeft <= 0 THEN OverdueText
    ELSE IF daysLeft = 0 THEN TodayText
    ELSE InDaysText(daysLeft)

\* daysLeft === 0 ? today : (daysLeft < 0 ? overdue : `${daysLeft} days later`)
dueText(daysLeft) ==
    IF daysLeft = 0 THEN TodayText
    ELSE IF daysLeft < 0 THEN OverdueText
    ELSE InDaysText(daysLeft)

\* toLocaleDateString('zh-TW'): year/month/day, the month counted from 1
toLocaleDateString(dt) == <<dt.y, dt.m + 1, dt.d>>

\* the message, as the values the template interpolates, in their order
generateReminderMessage(s, daysLeft) ==
    [name     |-> s.name,
     dueText  |-> dueText(daysLeft),
     dateStr  |-> toLocaleDateString(getNextBillingDate(s)),
     currency |-> s.currency,
     price    |-> s.price]

----------------------------------------------------------------------------
(* utils.ts: getBillDatesInMonth *)

\* mutant: the walk is not brought back to the start date
MonthlyStartNoClamp(start, currentMonth) ==
    setMonth(IF start.y < currentMonth.y THEN setFullYear(start, currentMonth.y)
             ELSE start,
             currentMonth.m - 1)

\* mutant: the walk is not moved to the year of the queried month
MonthlyStartNoYear(start, currentMonth) ==
    LET d2 == setMonth(start, currentMonth.m - 1)
    IN  IF isBefore(d2, start) THEN start ELSE d2

\* the date the MONTHLY walk starts from
MonthlyStart(start, currentMonth) ==
    LET d1 == IF start.y < currentMonth.y
              THEN setFullYear(start, currentMonth.y)
              ELSE start
        d2 == setMonth(d1, currentMonth.m - 1)
    IN  IF isBefore(d2, start) THEN start ELSE d2

\* mutant: a date is kept without looking at its month
PushAnyMonth(st, start, currentMonth) ==
    IF ~isBefore(st.date, start) THEN Append(st.dates, st.date) ELSE st.dates

\* the push shared by the three enumeration loops
Push(st, start, currentMonth) ==
    IF isSameMonth(st.date, currentMonth) /\ ~isBefore(st.date, start)
    THEN Append(st.dates, st.date)
    ELSE st.dates

MonthlyGuard(st, monthEnd) ==
    isBefore(st.date, addMonths(monthEnd, 1)) /\ st.iterations < MonthlyCap

MonthlyBody(st, start, currentMonth) ==
    [date |-> addMonths(st.date, 1),
     iterations |-> st.iterations + 1,
     dates |-> Push(st, start, currentMonth)]

RECURSIVE MonthlyLoop(_, _, _, _)
MonthlyLoop(st, start, currentMonth, n) ==
    IF ~MonthlyGuard(st, endOfMonth(currentMonth)) THEN st
    ELSE IF n <= 1 THEN MonthlyBody(st, start, currentMonth)
    ELSE MonthlyLoop(MonthlyLoop(st, start, currentMonth, n \div 2),
                     start, currentMonth, n - (n \div 2))

\* the YEARLY loop has no counter of its own: iterations only counts its passes
YearlyGuard(st, monthEnd) == isBefore(st.date, addYears(monthEnd, 1))

\* mutant: the YEARLY walk advances by one month
YearlyBodyMonthStep(st, start, currentMonth) ==
    [date |-> addMonths(st.date, 1),
     iterations |-> st.iterations + 1,
     dates |-> Push(st, start, currentMonth)]

YearlyBody(st, start, currentMonth) ==
    [date |-> addYears(st.date, 1),
     iterations |-> st.iterations + 1,
     dates |-> Push(st, start, currentMonth)]

RECURSIVE YearlyLoop(_, _, _, _)
YearlyLoop(st, start, currentMonth, n) ==
    IF ~YearlyGuard(st, endOfMonth(currentMonth)) THEN st
    ELSE IF n <= 1 THEN YearlyBody(st, start, currentMonth)
    ELSE YearlyLoop(YearlyLoop(st, start, currentMonth, n \div 2),
                    start, currentMonth, n - (n \div 2))

\* the WEEKLY fast-forward, a loop without a counter: skipped counts its passes
ForwardGuard(st, currentMonth) == st.date.y < currentMonth.y - 1

ForwardBody(st) ==
    [date |-> addYears(st.date, 1), skipped |-> st.skipped + 1]

RECURSIVE ForwardLoop(_, _, _)
ForwardLoop(st, currentMonth, n) ==
    IF ~ForwardGuard(st, currentMonth) THEN st
    ELSE IF n <= 1 THEN ForwardBody(st)
    ELSE ForwardLoop(ForwardLoop(st, currentMonth, n \div 2),
                     currentMonth, n - (n \div 2))

WeeklyGuard(st, monthEnd) ==
    isBefore(st.date, addWeeks(monthEnd, 1)) /\ st.iterations < WeeklyCap

WeeklyBody(st, start, currentMonth) ==
    [date |-> addWeeks(st.date, 1),
     iterations |-> st.iterations + 1,
     dates |-> Push(st, start, currentMonth)]

RECURSIVE WeeklyLoop(_, _, _, _)
WeeklyLoop(st, start, currentMonth, n) ==
    IF ~WeeklyGuard(st, endOfMonth(currentMonth)) THEN st
    ELSE IF n <= 1 THEN WeeklyBody(st, start, currentMonth)
    ELSE WeeklyLoop(WeeklyLoop(st, start, currentMonth, n \div 2),
                    start, currentMonth, n - (n \div 2))

\* the whole call: the dates returned, the passes of the enumeration loop
\* (iterations), the passes of the fast-forward (skipped), and whether every
\* loop had left by itself when its passes ran out (exited)
\* mutant: an inactive subscription is walked like an active one
NothingToBillUnlessDateMissing(s) == s.firstBillDate = <<>>

\* if (!sub.active || !sub.firstBillDate) return []
NothingToBill(s) == ~s.active \/ s.firstBillDate = <<>>

BillDatesRun(s, currentMonth) ==
    LET none == [dates |-> <<>>, iterations |-> 0, skipped |-> 0, exited |-> TRUE]
    IN  IF NothingToBill(s) THEN none
        ELSE
        LET start    == parseISO(s.firstBillDate)
            monthEnd == endOfMonth(currentMonth)
            first(d) == [date |-> d, iterations |-> 0, dates |-> <<>>]
        IN  IF s.billingCycle = MONTHLY THEN
                LET st == MonthlyLoop(first(MonthlyStart(start, currentMonth)),
                                      start, currentMonth, Fuel)
                IN  [dates |-> st.dates, iterations |-> st.iterations,
                     skipped |-> 0, exited |-> ~MonthlyGuard(st, monthEnd)]
            ELSE IF s.billingCycle = YEARLY THEN
                LET st == YearlyLoop(first(start), start, currentMonth, Fuel)
                IN  [dates |-> st.dates, iterations |-> st.iterations,
                     skipped |-> 0, exited |-> ~YearlyGuard(st, monthEnd)]
            ELSE IF s.billingCycle = WEEKLY THEN
                LET fw == ForwardLoop([date |-> start, skipped |-> 0],
                                      currentMonth, Fuel)
                    st == WeeklyLoop(first(fw.date), start, currentMonth, Fuel)
                IN  [dates |-> st.dates, iterations |-> st.iterations,
                     skipped |-> fw.skipped,
                     exited |-> ~ForwardGuard(fw, currentMonth)
                                  /\ ~WeeklyGuard(st, monthEnd)]
            ELSE none

getBillDatesInMonth(s, currentMonth) == BillDatesRun(s, currentMonth).dates

\* The objects of a call.  heap gives every object its value: "sub" and
\* "currentMonth" are the caller's objects, "start" is the Date parsed from
\* firstBillDate, the others are the Dates the call creates; date names the
\* object the variable date refers to.

\* mutant: date keeps referring to the object it referred to
CopyDateDropped(heap, name, ref) == [heap |-> heap, date |-> ref]

\* date = new Date(date)
CopyDate(heap, name, ref) == [heap |-> (name :> heap[ref]) @@ heap, date |-> name]

\* the MONTHLY branch up to its loop (lines 69 to 79): the only statements of
\* the function that change a Date in place
MonthlyObjects(heap) ==
    LET currentMonth == heap["currentMonth"]
        c1 == IF heap["start"].y < currentMonth.y
              THEN LET c == CopyDate(heap, "line 72", "start")
                   IN  [heap |-> [c.heap EXCEPT
                                    ![c.date] = setFullYear(@, currentMonth.y)],
                        date |-> c.date]
              ELSE [heap |-> heap, date |-> "start"]
        c2 == CopyDate(c1.heap, "line 76", c1.date)
        h2 == [c2.heap EXCEPT ![c2.date] = setMonth(@, currentMonth.m - 1)]
    IN  [heap |-> h2,
         date |-> IF isBefore(h2[c2.date], h2["start"]) THEN "start" ELSE c2.date]

\* the objects when the call returns: the loops give date new objects made
\* by date-fns and change none
BillDatesObjects(s, currentMonth) ==
    LET args == ("sub" :> s) @@ ("currentMonth" :> currentMonth)
    IN  IF NothingToBill(s) THEN [heap |-> args, date |-> "none"]
        ELSE LET heap == ("start" :> parseISO(s.firstBillDate)) @@ args
             IN  IF s.billingCycle = MONTHLY THEN MonthlyObjects(heap)
                 ELSE [heap |-> heap, date |-> "start"]

----------------------------------------------------------------------------
(* The inputs the recurrence functions are called with *)

TZOffsets == {-5, 8}

Nows == {[y |-> 2025, m |-> 2, d |-> 15, t |-> 10],
         [y |-> 2024, m |-> 1, d |-> 29, t |-> 23]}

\* start dates around the queried months: first, middle and last days
NearDates ==
    {str \in (2023..2025) \X {0, 1, 2, 5, 11} \X {1, 15, 29, 30, 31} :
        str[3] <= DaysInMonth(str[1], str[2])}

\* start dates named by the specification, and start dates far in the past
FarDates ==
    {<<2023, 0, 2>>, <<2024, 0, 31>>, <<2015, 5, 15>>,
     <<2006, 0, 21>>, <<2006, 0, 14>>, <<2005, 0, 3>>, <<1940, 0, 31>>}

Sub(cycle, str, active) ==
    [billingCycle |-> cycle, firstBillDate |-> str, active |-> active]

Subs ==
    {Sub(c, str, TRUE) : c \in BillingCycle, str \in NearDates \cup FarDates}
      \cup {Sub(c, str, FALSE) : c \in BillingCycle, str \in FarDates \cup {<<>>}}
      \cup {Sub(c, <<>>, TRUE) : c \in BillingCycle}
      \cup {Sub("DAILY", <<2024, 0, 31>>, TRUE)}

\* the first day of every month of the last two years up to MaxYear
Anchors ==
    {[y |-> y, m |-> m, d |-> 1, t |-> 0] : y \in (MaxYear - 1)..MaxYear, m \in 0..11}

\* calls across a distance of more than ten thousand years
FarCalls ==
    {<<Sub(c, <<1900, 0, 1>>, TRUE), [y |-> 12000, m |-> 0, d |-> 1, t |-> 0]>> :
        c \in BillingCycle}

----------------------------------------------------------------------------
(* The recurrence functions, called one at a time with any input *)

CallIdle ==
    /\ op = "none"
    /\ sub = Sub(MONTHLY, <<>>, FALSE)
    /\ anchor = startOfMonth(now)
    /\ ret = <<>>
    /\ seen = <<>>

AppIdle ==
    /\ subscriptions = <<>>
    /\ isFormOpen = FALSE
    /\ editingSub = <<>>
    /\ formData = <<>>
    /\ uuid = 0
    /\ mounted = FALSE
    /\ upcomingSubs = <<>>
    /\ isSmartModalOpen = FALSE
    /\ isLoading = FALSE
    /\ permission = "default"
    /\ confirmAnswer = <<>>
    /\ notification = <<>>
    /\ input = <<>>
    /\ error = ""
    /\ parseRequests = 0
    /\ storage = <<>>
    /\ aiInsights = ""
    /\ insightRequests = <<>>

Init ==
    /\ tz \in TZOffsets
    /\ now \in Nows
    /\ apiKey = FALSE
    /\ CallIdle
    /\ AppIdle

\* what a call of getNextBillingDate returns (date), with the passes of its
\* loop and whether the loop had left by itself
NextBillingDateRun(s) ==
    [date |-> getNextBillingDate(s),
     iterations |-> IF s.firstBillDate = <<>> THEN 0
                    ELSE NextRun(s).iterations,
     exited |-> s.firstBillDate = <<>> \/ ~NextGuard(NextRun(s))]

CallGetNextBillingDate ==
    \E s \in Subs :
        /\ op = "none"
        /\ op' = "getNextBillingDate"
        /\ sub' = s
        /\ ret' = [daysLeft |-> getDaysRemaining(getNextBillingDate(s))]
                     @@ NextBillingDateRun(s)
        /\ UNCHANGED <<envVars, appVars, seen, anchor>>

CallGetBillDatesInMonth ==
    \E call \in (Subs \X Anchors) \cup FarCalls :
        /\ op = "none"
        /\ op' = "getBillDatesInMonth"
        /\ sub' = call[1]
        /\ anchor' = call[2]
        /\ ret' = [objects |-> BillDatesObjects(call[1], call[2])]
                     @@ BillDatesRun(call[1], call[2])
        /\ UNCHANGED <<envVars, appVars, seen>>

\* the subscriptions a reminder is written for, and the days left passed in
ReminderSubs ==
    {[billingCycle |-> c, firstBillDate |-> str, active |-> TRUE,
      name |-> n, currency |-> cur, price |-> p] :
        c \in {MONTHLY, WEEKLY}, str \in {<<2024, 0, 31>>, <<>>},
        n \in {"Netflix", "Spotify"}, cur \in {"TWD", "USD"}, p \in {0, 149}}

ReminderDaysLeft == {-2, -1, 0, 1, 2, 7}

CallGenerateReminderMessage ==
    \E s \in ReminderSubs, daysLeft \in ReminderDaysLeft :
        /\ op = "none"
        /\ op' = "generateReminderMessage"
        /\ sub' = s
        /\ ret' = [daysLeft |-> daysLeft,
                   message |-> generateReminderMessage(s, daysLeft)]
        /\ UNCHANGED <<envVars, appVars, seen, anchor>>

\* a caller asks for the next billing date and then for the bill dates of
\* the month of that date
CallNextThenBillDates ==
    \E s \in Subs :
        /\ op = "none"
        /\ op' = "getNextBillingDate, getBillDatesInMonth"
        /\ sub' = s
        /\ anchor' = getNextBillingDate(s)
        /\ ret' = [date |-> getNextBillingDate(s),
                   iterations |-> NextBillingDateRun(s).iterations,
                   dates |-> getBillDatesInMonth(s, getNextBillingDate(s))]
        /\ UNCHANGED <<envVars, appVars, seen>>

\* the caller has used the result; the engine keeps nothing between calls
Return ==
    /\ op # "none"
    /\ op' = "none"
    /\ sub' = Sub(MONTHLY, <<>>, FALSE)
    /\ anchor' = startOfMonth(now)
    /\ ret' = <<>>
    /\ UNCHANGED <<envVars, appVars, seen>>

Next ==
    \/ CallGetNextBillingDate
    \/ CallGetBillDatesInMonth
    \/ CallGenerateReminderMessage
    \/ CallNextThenBillDates
    \/ Return

Spec == Init /\ [][Next]_vars

----------------------------------------------------------------------------
(* The recurrence functions, called again and again by several callers *)

RepeatedSubs ==
    {Sub(WEEKLY, <<2015, 5, 15>>, TRUE), Sub(MONTHLY, <<2024, 0, 31>>, TRUE),
     Sub(YEARLY, <<2024, 1, 29>>, TRUE), Sub(MONTHLY, <<>>, TRUE)}

\* March of MaxYear
RepeatedAnchors == {[y |-> MaxYear, m |-> 2, d |-> 1, t |-> 0]}

RepeatedCalls ==
    {<<"getNextBillingDate", s>> : s \in RepeatedSubs}
      \cup {<<"getBillDatesInMonth", s, a>> : s \in RepeatedSubs, a \in RepeatedAnchors}

\* the call is evaluated in the state the earlier calls have left
Evaluated(call) ==
    /\ op' = call[1]
    /\ sub' = call[2]
    /\ anchor' = IF Len(call) = 3 THEN call[3] ELSE anchor
    /\ ret' = IF call[1] = "getNextBillingDate"
              THEN NextBillingDateRun(call[2])
              ELSE BillDatesRun(call[2], call[3])
    /\ UNCHANGED <<envVars, appVars>>

\* a caller evaluates a call; the call before it is the one remembered from now on
CallAndRememberLast ==
    \E call \in RepeatedCalls :
        /\ op # "none"
        /\ Evaluated(call)
        /\ seen' = <<[op |-> op, sub |-> sub, anchor |-> anchor, ret |-> ret,
                      others |-> FALSE]>>

\* a caller evaluates a call; the call before it was another call made since
\* the remembered one
CallAgain ==
    \E call \in RepeatedCalls :
        /\ Evaluated(call)
        /\ seen' = IF seen = <<>> THEN <<>>
                   ELSE <<[seen[1] EXCEPT !.others = (op # "none")]>>

CallsNext ==
    \/ CallAndRememberLast
    \/ CallAgain

SpecCalls == Init /\ [][CallsNext]_vars

----------------------------------------------------------------------------
(* App.tsx: the reminder list *)

\* {...prev, ...data}: the fields of data replace or extend those of prev
Merge(prev, data) ==
    [f \in (DOMAIN prev) \cup (DOMAIN data) |->
        IF f \in DOMAIN data THEN data[f] ELSE prev[f]]

\* {...s, daysLeft: getDaysRemaining(getNextBillingDate(s))}
WithDaysLeft(s) ==
    Merge(s, [daysLeft |-> getDaysRemaining(getNextBillingDate(s))])

\* the comparator (a, b) => a.daysLeft - b.daysLeft
CompareDaysLeft(a, b) == a.daysLeft - b.daysLeft

\* mutant: an element goes in front of the elements it compares equal to
RECURSIVE InsertBeforeEqual(_, _)
InsertBeforeEqual(sorted, x) ==
    IF sorted = <<>> THEN <<x>>
    ELSE IF CompareDaysLeft(Head(sorted), x) < 0
         THEN <<Head(sorted)>> \o InsertBeforeEqual(Tail(sorted), x)
         ELSE <<x>> \o sorted

\* x goes behind every element that does not compare greater than x
RECURSIVE Insert(_, _)
Insert(sorted, x) ==
    IF sorted = <<>> THEN <<x>>
    ELSE IF CompareDaysLeft(Head(sorted), x) <= 0
         THEN <<Head(sorted)>> \o Insert(Tail(sorted), x)
         ELSE <<x>> \o sorted

\* Array.prototype.sort with CompareDaysLeft: a stable sort
RECURSIVE SortByDaysLeft(_)
SortByDaysLeft(seq) ==
    IF seq = <<>> THEN <<>>
    ELSE Insert(SortByDaysLeft(SubSeq(seq, 1, Len(seq) - 1)), seq[Len(seq)])

IsActive(s) == s.active

\* mutant: a subscription due today is left out
InWindowAfterToday(s) == s.daysLeft > 0 /\ s.daysLeft <= 7

InWindow(s) == s.daysLeft >= 0 /\ s.daysLeft <= 7

\* the callback of the memo: the reminder list of a collection
UpcomingOf(subs) ==
    LET active == SelectSeq(subs, IsActive)
        withDays == [i \in 1..Len(active) |-> WithDaysLeft(active[i])]
    IN  SortByDaysLeft(SelectSeq(withDays, InWindow))

----------------------------------------------------------------------------
(* App.tsx and SubscriptionForm: the handlers that change the collection *)

\* new Date().toISOString().split('T')[0]: the UTC calendar day of now
toISODate(dt) ==
    LET h == dt.t - tz
        u == MakeDate(dt.y, dt.m,
                      dt.d + (IF h < 0 THEN -1 ELSE IF h >= 24 THEN 1 ELSE 0), 0)
    IN  <<u.y, u.m, u.d>>

\* the fields a new form starts with (those the recurrence engine reads)
DefaultFormData ==
    [billingCycle |-> MONTHLY, firstBillDate |-> toISODate(now), active |-> TRUE]

\* what the user picks in the form
FormCycles == {WEEKLY, MONTHLY}

FormDayOffsets == {0}

FormDates ==
    {LET day == addDays(startOfToday, k) IN <<day.y, day.m, day.d>> :
        k \in FormDayOffsets}

\* a stored record whose firstBillDate is k days after today
Stored(id, cycle, k, active) ==
    LET day == addDays(startOfToday, k)
    IN  [id |-> id, billingCycle |-> cycle, firstBillDate |-> <<day.y, day.m, day.d>>,
         active |-> active]

\* what local storage may hold when the application starts: nothing, one
\* inactive subscription, three active ones, two active ones around an
\* inactive one
StoredCollections ==
    {<<>>,
     <<[id |-> 1, billingCycle |-> WEEKLY, firstBillDate |-> toISODate(now),
        active |-> FALSE]>>,
     <<Stored(1, WEEKLY, 8, TRUE), Stored(2, MONTHLY, 8, TRUE), Stored(3, WEEKLY, 0, TRUE)>>,
     <<Stored(1, WEEKLY, 0, TRUE), Stored(2, WEEKLY, 0, FALSE), Stored(3, MONTHLY, 8, TRUE)>>}

\* the fields of a record in the order in which handleSubmit writes them,
\* which is the order in which JSON.stringify prints them
FieldOrder == <<"id", "billingCycle", "firstBillDate", "active">>

\* JSON.stringify of an array of records: the text of every object is the
\* sequence of its "key": value pairs
JSONstringify(subs) ==
    <<"array",
      [i \in 1..Len(subs) |->
          LET Has(f) == f \in DOMAIN subs[i]
              keys   == SelectSeq(FieldOrder, Has)
          IN  [k \in 1..Len(keys) |-> <<keys[k], subs[i][keys[k]]>>]]>>

\* JSON.parse of such a text
JSONparse(text) ==
    [i \in 1..Len(text[2]) |->
        LET pairs == text[2][i]
        IN  [f \in {pairs[k][1] : k \in 1..Len(pairs)} |->
                pairs[CHOOSE k \in 1..Len(pairs) : pairs[k][1] = f][2]]]

\* localStorage.getItem gives null: nothing is stored under the key
NoItem == <<>>

\* a stored text on which JSON.parse throws
CorruptItem == <<"{">>

\* what local storage may hold when the application starts
StoredItems ==
    {NoItem, CorruptItem} \cup {JSONstringify(c) : c \in StoredCollections}

\* the initialiser of the subscriptions state
InitialSubscriptions(item) ==
    IF item = NoItem THEN <<>>
    ELSE IF item = CorruptItem THEN <<>>
    ELSE JSONparse(item)

\* mutant: the persistence effect depends on subscriptions.length
PersistedOnLengthChange(before, after) ==
    IF Len(after) # Len(before) THEN JSONstringify(after) ELSE JSONstringify(before)

\* the persistence effect after a render with a new collection: what
\* localStorage.setItem stores
Persisted(before, after) == JSONstringify(after)

\* the text getSpendingInsights returns when no API key is set
NoKeyText == "set the API key to enable the analysis"

\* the texts a request to the model may resolve with: the model's text about
\* the collection it was asked about, the text used when the model's text is
\* empty, and the text used when the request throws
Responses(subs) ==
    {"a tip about " \o ToString(Len(subs)) \o " subscriptions",
     "keep tracking your spending",
     "reviewing your subscriptions regularly saves money"}

\* getSpendingInsights(subscriptions) with a key: one more pending request,
\* which holds the collection it was made for
Requested(requests, subs) == Append(requests, subs)

\* the insights effect after a render with a new collection: without a key
\* the promise is resolved with the fixed text before any other event
InsightsEffect(subs) ==
    IF Len(subs) > 0
    THEN IF apiKey
         THEN [aiInsights |-> aiInsights,
               insightRequests |-> Requested(insightRequests, subs)]
         ELSE [aiInsights |-> NoKeyText, insightRequests |-> insightRequests]
    ELSE [aiInsights |-> "", insightRequests |-> insightRequests]

\* the state before the first render, local storage holding one of items
StartWith(items) ==
    /\ tz \in TZOffsets
    /\ now = [y |-> 2025, m |-> 2, d |-> 15, t |-> 10]
    /\ CallIdle
    /\ storage \in items
    /\ subscriptions = InitialSubscriptions(storage)
    /\ input = <<>>
    /\ error = ""
    /\ parseRequests = 0
    /\ aiInsights = ""
    /\ insightRequests = <<>>
    /\ mounted = FALSE
    /\ upcomingSubs = <<>>
    /\ uuid = Len(subscriptions)
    /\ isFormOpen = FALSE
    /\ editingSub = <<>>
    /\ formData = DefaultFormData
    /\ isSmartModalOpen = FALSE
    /\ isLoading = FALSE
    /\ permission \in {"default", "granted"}
    /\ confirmAnswer = <<>>
    /\ notification = <<>>

AppInit == StartWith(StoredItems) /\ apiKey = FALSE

\* the daysLeft up to which the first entry of the list is notified
NotifyWithin == 3

\* mutant: the first entry is notified however far away it is
NotificationEffectAnyFirst(list) ==
    IF permission = "granted" /\ Len(list) > 0
    THEN <<[first |-> list[1]]>>
    ELSE <<>>

\* the notification effect: what it creates when it runs on a list
NotificationEffect(list) ==
    IF permission = "granted" /\ Len(list) > 0 /\ list[1].daysLeft <= NotifyWithin
    THEN <<[first |-> list[1]]>>
    ELSE <<>>

\* a render after the first: the effect runs when upcomingSubs.length changed
Rendered(before, after) ==
    IF Len(after) # Len(before) THEN NotificationEffect(after) ELSE <<>>

\* the first render: the memo of the reminder list is computed
Mount ==
    /\ ~mounted
    /\ mounted' = TRUE
    /\ upcomingSubs' = UpcomingOf(subscriptions)
    /\ confirmAnswer' = <<>>
    /\ notification' = NotificationEffect(upcomingSubs')
    /\ storage' = JSONstringify(subscriptions)
    /\ aiInsights' = InsightsEffect(subscriptions).aiInsights
    /\ insightRequests' = InsightsEffect(subscriptions).insightRequests
    /\ UNCHANGED <<envVars, callVars, seen, subscriptions, uuid, formVars, modalVars, permission>>

\* the user answers the permission prompt that the effect requested
PermissionDecision ==
    \E answer \in {"granted", "denied"} :
        /\ mounted
        /\ permission = "default"
        /\ permission' = answer
        /\ confirmAnswer' = <<>>
        /\ notification' = <<>>
        /\ UNCHANGED <<envVars, callVars, seen, storage, insightVars, mounted, subscriptions, upcomingSubs, uuid,
                       formVars, modalVars>>

\* the main page can be clicked: neither overlay covers it
MainPage == mounted /\ ~isFormOpen /\ ~isSmartModalOpen

\* the button that opens an empty form
OpenNewForm ==
    /\ MainPage
    /\ editingSub' = <<>>
    /\ isFormOpen' = TRUE
    /\ formData' = DefaultFormData
    /\ confirmAnswer' = <<>>
    /\ notification' = <<>>
    /\ UNCHANGED <<envVars, callVars, seen, storage, insightVars, permission, mounted, subscriptions, upcomingSubs, uuid, modalVars>>

\* handleEditSubscription, and the effect that merges initialData into the form
handleEditSubscription ==
    \E i \in 1..Len(subscriptions) :
        /\ MainPage
        /\ editingSub' = <<subscriptions[i]>>
        /\ isFormOpen' = TRUE
        /\ formData' = Merge(formData, subscriptions[i])
        /\ confirmAnswer' = <<>>
        /\ notification' = <<>>
        /\ UNCHANGED <<envVars, callVars, seen, storage, insightVars, permission, mounted, subscriptions, upcomingSubs, uuid, modalVars>>

\* the button that opens the smart-add modal
OpenSmartModal ==
    /\ MainPage
    /\ isSmartModalOpen' = TRUE
    /\ confirmAnswer' = <<>>
    /\ notification' = <<>>
    /\ UNCHANGED <<envVars, callVars, seen, storage, insightVars, permission, mounted, subscriptions, upcomingSubs, uuid, formVars,
                   isLoading, input, error, parseRequests>>

\* the modal's close and cancel buttons (enabled while a request is pending)
CloseSmartModal ==
    /\ isSmartModalOpen
    /\ isSmartModalOpen' = FALSE
    /\ confirmAnswer' = <<>>
    /\ notification' = <<>>
    /\ UNCHANGED <<envVars, callVars, seen, storage, insightVars, permission, mounted, subscriptions, upcomingSubs, uuid, formVars,
                   isLoading, input, error, parseRequests>>

\* what the user types into the modal: nothing, a blank, a description
Inputs == {<<>>, <<" ">>, <<"a">>}

\* the textarea's onChange (the textarea stays enabled while a request is pending)
ChangeInput ==
    \E text \in Inputs :
        /\ isSmartModalOpen
        /\ text # input
        /\ input' = text
        /\ confirmAnswer' = <<>>
        /\ notification' = <<>>
        /\ UNCHANGED <<envVars, callVars, seen, storage, insightVars, permission, mounted, subscriptions, upcomingSubs, uuid, formVars,
                       isSmartModalOpen, isLoading, error, parseRequests>>

RECURSIVE trimStart(_)
trimStart(str) ==
    IF str # <<>> /\ Head(str) = " " THEN trimStart(Tail(str)) ELSE str

RECURSIVE trimEnd(_)
trimEnd(str) ==
    IF str # <<>> /\ str[Len(str)] = " "
    THEN trimEnd(SubSeq(str, 1, Len(str) - 1))
    ELSE str

\* String.prototype.trim
trim(str) == trimEnd(trimStart(str))

\* mutant: the button is disabled by an empty text only
AnalyzeDisabledByTextOnly == trim(input) = <<>>

\* the analyze button: disabled={isLoading || !input.trim()}
AnalyzeDisabled == isLoading \/ trim(input) = <<>>

\* the message setError is given when the request fails
AnalysisFailedText == "analysis failed"

\* handleAnalyze up to its await
handleAnalyze ==
    /\ isSmartModalOpen
    /\ ~AnalyzeDisabled
    /\ trim(input) # <<>>
    /\ isLoading' = TRUE
    /\ error' = ""
    /\ parseRequests' = parseRequests + 1
    /\ confirmAnswer' = <<>>
    /\ notification' = <<>>
    /\ UNCHANGED <<envVars, callVars, seen, storage, insightVars, permission, mounted, subscriptions, upcomingSubs, uuid, formVars,
                   isSmartModalOpen, input>>

\* what the parser returns: billingCycle is required of it; it has no id
ParsedData == {[billingCycle |-> c] : c \in FormCycles}

\* mutant: the fields the form had win over the parsed ones
SmartFormDataPrevFirst(data) == Merge(data, formData)

\* the form's effect on a new initialData: {...prev, ...initialData}
SmartFormData(data) == Merge(formData, data)

\* handleAnalyze after its await, the request fulfilled:
\* handleSmartDataParsed(data), setInput(''), onClose(), setIsLoading(false),
\* and the form's effect on the new initialData
handleSmartDataParsed ==
    \E data \in ParsedData :
        /\ parseRequests > 0
        /\ parseRequests' = parseRequests - 1
        /\ editingSub' = <<data>>
        /\ isFormOpen' = TRUE
        /\ formData' = SmartFormData(data)
        /\ input' = <<>>
        /\ isSmartModalOpen' = FALSE
        /\ isLoading' = FALSE
        /\ confirmAnswer' = <<>>
        /\ notification' = <<>>
        /\ UNCHANGED <<envVars, callVars, seen, storage, insightVars, permission, mounted, subscriptions, upcomingSubs, uuid, error>>

\* handleAnalyze after its await, the request rejected: setError, setIsLoading(false)
ParseFailed ==
    /\ parseRequests > 0
    /\ parseRequests' = parseRequests - 1
    /\ error' = AnalysisFailedText
    /\ isLoading' = FALSE
    /\ confirmAnswer' = <<>>
    /\ notification' = <<>>
    /\ UNCHANGED <<envVars, callVars, seen, storage, insightVars, permission, mounted, subscriptions, upcomingSubs, uuid, formVars,
                   isSmartModalOpen, input>>

ChangeBillingCycle ==
    \E c \in FormCycles :
        /\ isFormOpen
        /\ formData' = Merge(formData, [billingCycle |-> c])
        /\ confirmAnswer' = <<>>
        /\ notification' = <<>>
        /\ UNCHANGED <<envVars, callVars, seen, storage, insightVars, permission, mounted, subscriptions, upcomingSubs, isFormOpen, editingSub, uuid, modalVars>>

ChangeFirstBillDate ==
    \E str \in FormDates :
        /\ isFormOpen
        /\ formData' = Merge(formData, [firstBillDate |-> str])
        /\ confirmAnswer' = <<>>
        /\ notification' = <<>>
        /\ UNCHANGED <<envVars, callVars, seen, storage, insightVars, permission, mounted, subscriptions, upcomingSubs, isFormOpen, editingSub, uuid, modalVars>>

\* the record handleSubmit builds from the form
SubmittedSub ==
    [id |-> IF "id" \in DOMAIN formData THEN formData.id ELSE uuid + 1,
     billingCycle |-> formData.billingCycle,
     firstBillDate |-> formData.firstBillDate,
     active |-> formData.active]

\* prev.map(s => s.id === sub.id ? sub : s)
ReplaceById(prev, s) ==
    [i \in 1..Len(prev) |-> IF prev[i].id = s.id THEN s ELSE prev[i]]

IsEditing == editingSub # <<>> /\ "id" \in DOMAIN editingSub[1]

\* handleSaveSubscription
SavedSubscriptions(s) ==
    IF IsEditing THEN ReplaceById(subscriptions, s) ELSE Append(subscriptions, s)

\* handleSubmit: onSubmit (handleSaveSubscription), then onClose; the form's
\* effect then puts the default fields back
handleSubmit ==
    /\ isFormOpen
    /\ IsEditing \/ Len(subscriptions) < MaxSubs
    /\ "id" \in DOMAIN formData \/ uuid < MaxUuid
    /\ subscriptions' = SavedSubscriptions(SubmittedSub)
    /\ upcomingSubs' = UpcomingOf(subscriptions')
    /\ confirmAnswer' = <<>>
    /\ notification' = Rendered(upcomingSubs, upcomingSubs')
    /\ uuid' = IF "id" \in DOMAIN formData THEN uuid ELSE uuid + 1
    /\ editingSub' = <<>>
    /\ isFormOpen' = FALSE
    /\ formData' = DefaultFormData
    /\ storage' = Persisted(subscriptions, subscriptions')
    /\ aiInsights' = InsightsEffect(subscriptions').aiInsights
    /\ insightRequests' = InsightsEffect(subscriptions').insightRequests
    /\ Len(insightRequests') <= MaxRequests
    /\ UNCHANGED <<envVars, callVars, seen, permission, mounted, modalVars>>

\* the form's close button
CloseForm ==
    /\ isFormOpen
    /\ isFormOpen' = FALSE
    /\ editingSub' = <<>>
    /\ formData' = DefaultFormData
    /\ confirmAnswer' = <<>>
    /\ notification' = <<>>
    /\ UNCHANGED <<envVars, callVars, seen, storage, insightVars, permission, mounted, subscriptions, upcomingSubs, uuid, modalVars>>

\* mutant: only the first record with the id is removed
RemoveFirstById(prev, id) ==
    LET first == CHOOSE j \in 1..Len(prev) :
                     /\ prev[j].id = id
                     /\ \A k \in 1..(j - 1) : prev[k].id # id
    IN  [j \in 1..(Len(prev) - 1) |-> IF j < first THEN prev[j] ELSE prev[j + 1]]

\* prev.filter(s => s.id !== id)
RemoveById(prev, id) == LET Other(s) == s.id # id IN SelectSeq(prev, Other)

handleDeleteSubscription ==
    \E i \in 1..Len(subscriptions), confirmed \in BOOLEAN :
        /\ MainPage
        /\ confirmAnswer' = <<confirmed>>
        /\ subscriptions' = IF confirmed
                            THEN RemoveById(subscriptions, subscriptions[i].id)
                            ELSE subscriptions
        /\ upcomingSubs' = UpcomingOf(subscriptions')
        /\ notification' = Rendered(upcomingSubs, upcomingSubs')
        /\ storage' = IF confirmed THEN Persisted(subscriptions, subscriptions')
                       ELSE storage
        /\ aiInsights' = IF confirmed THEN InsightsEffect(subscriptions').aiInsights
                          ELSE aiInsights
        /\ insightRequests' = IF confirmed
                               THEN InsightsEffect(subscriptions').insightRequests
                               ELSE insightRequests
        /\ Len(insightRequests') <= MaxRequests
        /\ UNCHANGED <<envVars, callVars, seen, permission, mounted, uuid, formVars, modalVars>>

\* the handlers of the main page and of the subscription form
AppNext ==
    \/ Mount
    \/ PermissionDecision
    \/ OpenNewForm
    \/ handleEditSubscription
    \/ ChangeBillingCycle
    \/ ChangeFirstBillDate
    \/ handleSubmit
    \/ CloseForm
    \/ handleDeleteSubscription

SpecApp == AppInit /\ [][AppNext]_vars

\* a session that starts from a small store: nothing stored, a text that
\* does not parse, an empty collection, one subscription
SessionItems ==
    {NoItem, CorruptItem, JSONstringify(<<>>),
     JSONstringify(<<Stored(1, WEEKLY, 0, FALSE)>>)}

SessionInit == StartWith(SessionItems) /\ apiKey = FALSE

\* every handler of the application, the smart-add modal included
SessionNext ==
    \/ Mount
    \/ PermissionDecision
    \/ OpenNewForm
    \/ handleEditSubscription
    \/ OpenSmartModal
    \/ CloseSmartModal
    \/ ChangeInput
    \/ handleAnalyze
    \/ handleSmartDataParsed
    \/ ParseFailed
    \/ ChangeBillingCycle
    \/ ChangeFirstBillDate
    \/ handleSubmit
    \/ CloseForm
    \/ handleDeleteSubscription

SpecSession == SessionInit /\ [][SessionNext]_vars

\* the smart-add modal from an empty page, with the form it opens
ModalInit == StartWith({NoItem}) /\ apiKey = FALSE

ModalNext ==
    \/ Mount
    \/ PermissionDecision
    \/ OpenSmartModal
    \/ CloseSmartModal
    \/ ChangeInput
    \/ handleAnalyze
    \/ handleSmartDataParsed
    \/ ParseFailed
    \/ ChangeBillingCycle
    \/ CloseForm

\* the promise of parseSubscriptionInput settles: the code after the await
\* of handleAnalyze runs, through its try or through its catch
SpecModal ==
    /\ ModalInit
    /\ [][ModalNext]_vars
    /\ WF_vars(handleSmartDataParsed \/ ParseFailed)

\* a request to the model settles, in any order: .then(setAiInsights)
InsightResolved ==
    \E k \in 1..Len(insightRequests) :
        \E text \in Responses(insightRequests[k]) :
            /\ aiInsights' = text
            /\ insightRequests' =
                   [j \in 1..(Len(insightRequests) - 1) |->
                       IF j < k THEN insightRequests[j] ELSE insightRequests[j + 1]]
            /\ confirmAnswer' = <<>>
            /\ notification' = <<>>
            /\ UNCHANGED <<envVars, callVars, seen, storage, mounted, subscriptions,
                           upcomingSubs, uuid, formVars, modalVars, permission>>

\* a build with an API key, started with nothing stored or one subscription
InsightsInit ==
    /\ StartWith({NoItem, JSONstringify(<<Stored(1, WEEKLY, 0, FALSE)>>)})
    /\ apiKey = TRUE

\* adding, editing and deleting subscriptions while requests are pending
InsightsNext ==
    \/ Mount
    \/ OpenNewForm
    \/ handleEditSubscription
    \/ handleSubmit
    \/ CloseForm
    \/ handleDeleteSubscription
    \/ InsightResolved

SpecInsights == InsightsInit /\ [][InsightsNext]_vars

----------------------------------------------------------------------------
(* Dashboard and CalendarView: what is derived from the collection *)

\* amounts are counted in units of 1/CostScale, in which price / 12 and
\* price * 4.33 are whole numbers
CostScale == 1200

\* let monthlyCost = sub.price; YEARLY: price / 12; WEEKLY: price * 4.33
monthlyCost(s) ==
    IF s.billingCycle = YEARLY THEN s.price * (CostScale \div 12)
    ELSE IF s.billingCycle = WEEKLY THEN s.price * ((433 * CostScale) \div 100)
    ELSE s.price * CostScale

\* categorySpend[cat] = (categorySpend[cat] || 0) + monthlyCost, the keys in
\* the order in which they were first written
AddSpend(categorySpend, cat, cost) ==
    IF \E i \in 1..Len(categorySpend) : categorySpend[i].name = cat
    THEN [i \in 1..Len(categorySpend) |->
            IF categorySpend[i].name = cat
            THEN [name |-> cat, value |-> categorySpend[i].value + cost]
            ELSE categorySpend[i]]
    ELSE Append(categorySpend, [name |-> cat, value |-> cost])

\* mutant: the body of the forEach without its first line
StatsStepAnySub(acc, s) ==
    [monthlyTotal  |-> acc.monthlyTotal + monthlyCost(s),
     yearlyTotal   |-> acc.yearlyTotal + monthlyCost(s) * 12,
     categorySpend |-> AddSpend(acc.categorySpend, s.category, monthlyCost(s))]

\* the body of subscriptions.forEach
StatsStep(acc, s) ==
    IF ~s.active THEN acc
    ELSE [monthlyTotal  |-> acc.monthlyTotal + monthlyCost(s),
          yearlyTotal   |-> acc.yearlyTotal + monthlyCost(s) * 12,
          categorySpend |-> AddSpend(acc.categorySpend, s.category, monthlyCost(s))]

RECURSIVE StatsLoop(_, _, _)
StatsLoop(subs, i, acc) ==
    IF i > Len(subs) THEN acc
    ELSE StatsLoop(subs, i + 1, StatsStep(acc, subs[i]))

\* parseFloat(value.toFixed(2)): the amount in hundredths, rounded
toFixed2(value) == (value * 100 + CostScale \div 2) \div CostScale

stats(subs) ==
    LET acc == StatsLoop(subs, 1,
                         [monthlyTotal |-> 0, yearlyTotal |-> 0, categorySpend |-> <<>>])
    IN  [monthlyTotal |-> acc.monthlyTotal,
         yearlyTotal  |-> acc.yearlyTotal,
         pieData      |-> [i \in 1..Len(acc.categorySpend) |->
                             [name  |-> acc.categorySpend[i].name,
                              value |-> toFixed2(acc.categorySpend[i].value)]]]

\* {...sub, nextDate, daysLeft}
WithNextDate(s) ==
    LET nextDate == getNextBillingDate(s)
    IN  Merge(s, [nextDate |-> nextDate, daysLeft |-> getDaysRemaining(nextDate)])

processedSubs(subs) ==
    SortByDaysLeft([i \in 1..Len(subs) |-> WithNextDate(subs[i])])

\* format(date, 'yyyy-MM-dd')
format(date) == <<date.y, date.m + 1, date.d>>

\* CalendarView: the subscriptions billed on each day of the month shown, in
\* the order of the collection
subsByDate(subs, currentDate) ==
    LET keysOf == [i \in 1..Len(subs) |->
                     LET dates == getBillDatesInMonth(subs[i], currentDate)
                     IN  {format(dates[k]) : k \in 1..Len(dates)}]
        keys   == UNION {keysOf[i] : i \in 1..Len(subs)}
    IN  [key \in keys |->
            LET OnDay(i) == key \in keysOf[i]
                picked   == SelectSeq([i \in 1..Len(subs) |-> i], OnDay)
            IN  [j \in 1..Len(picked) |-> subs[picked[j]]]]

\* the price and category of the subscriptions of a collection
Plans == {[price |-> 120, category |-> "ENTERTAINMENT"],
          [price |-> 50, category |-> "SOFTWARE"]}

\* the days after today on which their first bill is
FirstBillOffsets == {2, 30}

DashboardSubs ==
    {Merge(Stored(0, c, k, a), plan) :
        c \in BillingCycle, k \in FirstBillOffsets, a \in BOOLEAN, plan \in Plans}

\* the collections of up to MaxSubs of them, the ids being the positions
DashboardCollections ==
    {[i \in 1..Len(q) |-> Merge(q[i], [id |-> i])] :
        q \in UNION {[1..n -> DashboardSubs] : n \in 0..MaxSubs}}

DashboardInit ==
    /\ tz \in TZOffsets
    /\ apiKey = FALSE
    /\ now = [y |-> 2025, m |-> 2, d |-> 15, t |-> 10]
    /\ op = "none"
    /\ sub = Sub(MONTHLY, <<>>, FALSE)
    /\ anchor = now
    /\ ret = <<>>
    /\ seen = <<>>
    /\ subscriptions \in DashboardCollections
    /\ mounted = FALSE
    /\ upcomingSubs = <<>>
    /\ uuid = Len(subscriptions)
    /\ isFormOpen = FALSE
    /\ editingSub = <<>>
    /\ formData = DefaultFormData
    /\ isSmartModalOpen = FALSE
    /\ isLoading = FALSE
    /\ permission = "default"
    /\ confirmAnswer = <<>>
    /\ notification = <<>>
    /\ input = <<>>
    /\ error = ""
    /\ parseRequests = 0
    /\ storage = <<>>
    /\ aiInsights = ""
    /\ insightRequests = <<>>

\* what Dashboard and CalendarView show for the collection and calendarDate
Views(calendarDate) ==
    [stats         |-> stats(subscriptions),
     processedSubs |-> processedSubs(subscriptions),
     subsByDate    |-> subsByDate(subscriptions, calendarDate)]

\* the first render of App, Dashboard and CalendarView
Render ==
    /\ ~mounted
    /\ mounted' = TRUE
    /\ op' = "Render"
    /\ upcomingSubs' = UpcomingOf(subscriptions)
    /\ confirmAnswer' = <<>>
    /\ notification' = NotificationEffect(upcomingSubs')
    /\ ret' = Views(anchor)
    /\ UNCHANGED <<envVars, sub, anchor, seen, subscriptions, uuid, formVars, modalVars,
                   permission, storage, insightVars>>

\* CalendarView: the button that shows the month after the current one
handleNextMonth ==
    /\ mounted
    /\ isSameMonth(anchor, now)
    /\ anchor' = addMonths(anchor, 1)
    /\ ret' = [ret EXCEPT !.subsByDate = subsByDate(subscriptions, anchor')]
    /\ confirmAnswer' = <<>>
    /\ notification' = <<>>
    /\ UNCHANGED <<envVars, op, sub, seen, mounted, subscriptions, upcomingSubs, uuid,
                   formVars, modalVars, permission, storage, insightVars>>

DashboardNext ==
    \/ Render
    \/ handleNextMonth

SpecDashboard == DashboardInit /\ [][DashboardNext]_vars

----------------------------------------------------------------------------
(* The occurrences of a subscription, as the specification defines them *)

ValidCall(name) ==
    /\ op = name
    /\ sub.billingCycle \in BillingCycle
    /\ sub.firstBillDate # <<>>

\* the start date of the subscription of the current call
Start == parseISO(sub.firstBillDate)

\* a single-cycle step: +1 week, +1 month, +1 year
CycleStep(cycle, d) ==
    IF cycle = WEEKLY THEN addWeeks(d, 1)
    ELSE IF cycle = MONTHLY THEN addMonths(d, 1)
    ELSE addYears(d, 1)

\* the first date of d, CycleStep(d), CycleStep(CycleStep(d)), ... that is not
\* before day, with the number of steps that lead to it
RECURSIVE Earliest(_, _, _, _)
Earliest(cycle, st, day, n) ==
    IF ~isBefore(st.date, day) THEN st
    ELSE IF n <= 1
    THEN [date |-> CycleStep(cycle, st.date), steps |-> st.steps + 1]
    ELSE Earliest(cycle, Earliest(cycle, st, day, n \div 2), day, n - (n \div 2))

EarliestFromStart ==
    Earliest(sub.billingCycle, [date |-> Start, steps |-> 0], startOfToday, Fuel)

MonthIndex(d) == d.y * 12 + d.m

Min(a, b) == IF a <= b THEN a ELSE b

Max(a, b) == IF a >= b THEN a ELSE b

\* the days of the month of a that are start + 7k days, k >= 0, in ascending order
RECURSIVE WeekdaysFrom(_, _, _)
WeekdaysFrom(start, a, d) ==
    IF d > DaysInMonth(a.y, a.m) THEN <<>>
    ELSE LET day == [y |-> a.y, m |-> a.m, d |-> d, t |-> start.t]
         IN  (IF /\ DayNumber(day) >= DayNumber(start)
                 /\ (DayNumber(day) - DayNumber(start)) % 7 = 0
              THEN <<day>> ELSE <<>>) \o WeekdaysFrom(start, a, d + 1)

----------------------------------------------------------------------------
(* Claims *)

C2_MonthEndClamping ==
    (ValidCall("getBillDatesInMonth") /\ sub.billingCycle = MONTHLY /\ sub.active) =>
        /\ (Start.d >= 29 /\ MonthIndex(anchor) >= MonthIndex(Start)) =>
              ret.dates = <<[y |-> anchor.y, m |-> anchor.m,
                             d |-> Min(Start.d, DaysInMonth(anchor.y, anchor.m)),
                             t |-> Start.t]>>
        /\ (sub.firstBillDate = <<2024, 0, 31>> /\ anchor.y = 2024 /\ anchor.m = 1) =>
              ret.dates = <<parseISO(<<2024, 1, 29>>)>>
        /\ (sub.firstBillDate = <<2024, 0, 31>> /\ anchor.y = 2024 /\ anchor.m = 2) =>
              ret.dates = <<parseISO(<<2024, 2, 31>>)>>

\* C3 as stated: for an active WEEKLY subscription getBillDatesInMonth returns
\* exactly the dates of the queried month that are firstBillDate + 7k days,
\* k >= 0, whatever the distance between firstBillDate and the queried month.
C3_WeeklySameWeekday ==
    (ValidCall("getBillDatesInMonth") /\ sub.billingCycle = WEEKLY /\ sub.active) =>
        ret.dates = WeekdaysFrom(Start, anchor, 1)

\* C4: for an active MONTHLY subscription getBillDatesInMonth returns at most
\* one date, and exactly one date for every queried month at or after the
\* month of firstBillDate.
C4_MonthlyOnePerMonth ==
    (ValidCall("getBillDatesInMonth") /\ sub.billingCycle = MONTHLY /\ sub.active) =>
        /\ Len(ret.dates) <= 1
        /\ MonthIndex(anchor) >= MonthIndex(Start) => Len(ret.dates) = 1

\* C4 witness: a start on day 31 queried for a later month of 30 days or fewer
C4_Witness ==
    /\ ValidCall("getBillDatesInMonth") /\ sub.billingCycle = MONTHLY /\ sub.active
    /\ Start.d = 31
    /\ MonthIndex(anchor) > MonthIndex(Start)
    /\ DaysInMonth(anchor.y, anchor.m) < 31
    /\ Len(ret.dates) = 1

\* C5: a MONTHLY subscription that starts 2015-06-15, queried for June 2025,
\* yields the single date 2025-06-15; and the MONTHLY loop makes at most three
\* passes whatever the distance in years, far below the cap of 24.
C5_YearGap ==
    (ValidCall("getBillDatesInMonth") /\ sub.billingCycle = MONTHLY /\ sub.active) =>
        /\ ret.iterations <= 3
        /\ ret.iterations < MonthlyCap
        /\ (sub.firstBillDate = <<2015, 5, 15>> /\ anchor.y = 2025 /\ anchor.m = 5) =>
              ret.dates = <<parseISO(<<2025, 5, 15>>)>>

\* C5 witness: the year-gap scenario itself
C5_Witness ==
    /\ ValidCall("getBillDatesInMonth") /\ sub.billingCycle = MONTHLY /\ sub.active
    /\ sub.firstBillDate = <<2015, 5, 15>> /\ anchor.y = 2025 /\ anchor.m = 5
    /\ Len(ret.dates) = 1

\* C6: every date getBillDatesInMonth returns lies in the month of the anchor
\* and is not before firstBillDate, and the dates are strictly ascending.
C6_InMonthAscending ==
    (op = "getBillDatesInMonth") =>
        \A i \in 1..Len(ret.dates) :
            /\ isSameMonth(ret.dates[i], anchor)
            /\ ~isBefore(ret.dates[i], Start)
            /\ i > 1 => isBefore(ret.dates[i - 1], ret.dates[i])

\* C6 witness: a weekly subscription with five occurrences in the queried month
C6_Witness ==
    /\ op = "getBillDatesInMonth"
    /\ sub.billingCycle = WEEKLY
    /\ Len(ret.dates) = 5

\* C7: getNextBillingDate makes at most 1000 passes through its loop, and when
\* it has made 1000 it returns the start of today.
C7_CapReturnsToday ==
    (op = "getNextBillingDate") =>
        /\ ret.iterations <= NextDateCap
        /\ ret.exited
        /\ ret.iterations = NextDateCap => ret.date = startOfToday

\* C7 witness: a weekly subscription that needs more than 1000 steps
C7_Witness ==
    /\ ValidCall("getNextBillingDate")
    /\ sub.billingCycle = WEEKLY
    /\ ret.iterations = NextDateCap
    /\ EarliestFromStart.steps > NextDateCap
    /\ ret.date = startOfToday

\* C8 as stated: no loop of the two functions makes more passes than the caps
\* allow (1000 for the next date, 24 for the MONTHLY enumeration and 10000,
\* the largest cap, for the YEARLY enumeration, the WEEKLY fast-forward and the
\* WEEKLY enumeration).
C8_EveryLoopCapped ==
    /\ op = "getNextBillingDate" => ret.iterations <= NextDateCap
    /\ (op = "getBillDatesInMonth" /\ sub.billingCycle = MONTHLY) =>
          ret.iterations <= MonthlyCap
    /\ (op = "getBillDatesInMonth" /\ sub.billingCycle = YEARLY) =>
          ret.iterations <= WeeklyCap
    /\ (op = "getBillDatesInMonth" /\ sub.billingCycle = WEEKLY) =>
          ret.iterations <= WeeklyCap /\ ret.skipped <= WeeklyCap

\* C8 amended: the three loops that count their passes stay within their caps
\* (1000, 24, 10000) and every loop leaves by itself; the YEARLY enumeration
\* and the WEEKLY fast-forward have no cap and make one pass per year of
\* distance between firstBillDate and the queried month.
C8_CountedLoopsCapped ==
    /\ op = "getNextBillingDate" => ret.iterations <= NextDateCap /\ ret.exited
    /\ (op = "getBillDatesInMonth" /\ sub.billingCycle = MONTHLY) =>
          ret.iterations <= MonthlyCap /\ ret.exited
    /\ (op = "getBillDatesInMonth" /\ sub.billingCycle = WEEKLY) =>
          ret.iterations <= WeeklyCap /\ ret.exited
    /\ (ValidCall("getBillDatesInMonth") /\ sub.billingCycle = WEEKLY /\ sub.active) =>
          ret.skipped = Max(0, anchor.y - 1 - Start.y)
    /\ (ValidCall("getBillDatesInMonth") /\ sub.billingCycle = YEARLY /\ sub.active) =>
          /\ ret.exited
          /\ ret.iterations <= Max(0, anchor.y + 2 - Start.y)
          /\ ret.iterations >= Max(0, anchor.y + 1 - Start.y)

\* C8 witness: a YEARLY enumeration of more than 10000 passes
C8_Witness ==
    /\ ValidCall("getBillDatesInMonth") /\ sub.billingCycle = YEARLY /\ sub.active
    /\ ret.iterations > WeeklyCap
    /\ ret.exited

----------------------------------------------------------------------------
(* The reminder list *)

\* the calendar-day difference between the next billing date of s and today
DaysLeftOf(s) == differenceInCalendarDays(getNextBillingDate(s), startOfToday)

\* the subscription an entry of the reminder list was made from
Stripped(e) == [f \in (DOMAIN e) \ {"daysLeft"} |-> e[f]]

\* daysLeft of every subscription of the collection, by position
CollectionDaysLeft == [j \in 1..Len(subscriptions) |-> DaysLeftOf(subscriptions[j])]

\* C9: the reminder list holds exactly the subscriptions of the collection that
\* are active and whose daysLeft (calendar days from today, the day on which the
\* list is computed, to the next billing date) is between 0 and 7, both ends
\* included: every entry is such a subscription with that daysLeft, every such
\* subscription has an entry, and there are as many entries as such subscriptions
C9_ExactlyActiveWithinWeek ==
    LET list == upcomingSubs
        days == CollectionDaysLeft
        qualifying == {j \in 1..Len(subscriptions) :
                          subscriptions[j].active /\ days[j] >= 0 /\ days[j] <= 7}
    IN  mounted =>
            /\ \A i \in 1..Len(list) :
                /\ list[i].active
                /\ list[i].daysLeft >= 0
                /\ list[i].daysLeft <= 7
                /\ \E j \in qualifying :
                    /\ subscriptions[j] = Stripped(list[i])
                    /\ days[j] = list[i].daysLeft
            /\ \A j \in qualifying :
                \E i \in 1..Len(list) : Stripped(list[i]) = subscriptions[j]
            /\ Len(list) = Cardinality(qualifying)

\* a subscription due today is listed while an inactive one (that would be in
\* the window) and one due in more than 7 days are left out
C9_Witness ==
    LET list == upcomingSubs
        days == CollectionDaysLeft
    IN  /\ Len(subscriptions) = 3
        /\ Len(list) = 1
        /\ list[1].daysLeft = 0
        /\ \E j \in 1..3 : ~subscriptions[j].active /\ days[j] \in 0..7
        /\ \E j \in 1..3 : subscriptions[j].active /\ days[j] > 7

\* C10: the reminder list is in non-decreasing order of daysLeft, and two
\* entries with the same daysLeft stand in the order their subscriptions have
\* in the collection
C10_SortedStable ==
    LET list == upcomingSubs
    IN  mounted =>
            /\ \A i \in 1..(Len(list) - 1) : list[i].daysLeft <= list[i + 1].daysLeft
            /\ \A i, k \in 1..Len(list) :
                (i < k /\ list[i].daysLeft = list[k].daysLeft)
                    => \E j, l \in 1..Len(subscriptions) :
                           /\ j < l
                           /\ subscriptions[j] = Stripped(list[i])
                           /\ subscriptions[l] = Stripped(list[k])

\* the sort moves an entry forward across two entries that tie with each other
C10_Witness ==
    LET list == upcomingSubs
    IN  /\ Len(subscriptions) = 3
        /\ Len(list) = 3
        /\ list[1].daysLeft < list[2].daysLeft
        /\ list[2].daysLeft = list[3].daysLeft
        /\ Stripped(list[1]) = subscriptions[3]
        /\ Stripped(list[2]) = subscriptions[1]
        /\ Stripped(list[3]) = subscriptions[2]

----------------------------------------------------------------------------
(* The collection's identifiers *)

\* C11: no two records of the subscription collection have the same id,
\* whatever the user does (add, edit, smart add, delete, opening and closing
\* the form and the modal) and whenever a pending parse request completes
C11_UniqueIds ==
    \A i, j \in 1..Len(subscriptions) :
        subscriptions[i].id = subscriptions[j].id => i = j

----------------------------------------------------------------------------
(* The recurrence functions on subscriptions that have nothing to bill *)

\* C12: getBillDatesInMonth returns the empty sequence for every inactive
\* subscription, whatever its billing cycle, its firstBillDate and the
\* queried month
C12_InactiveNoDates ==
    (op = "getBillDatesInMonth" /\ ~sub.active) => ret.dates = <<>>

\* an inactive subscription queried for a month in which, were it active, it
\* would have an occurrence
C12_Witness ==
    /\ op = "getBillDatesInMonth"
    /\ ~sub.active
    /\ sub.firstBillDate # <<>>
    /\ sub.billingCycle \in BillingCycle
    /\ getBillDatesInMonth([sub EXCEPT !.active = TRUE], anchor) # <<>>
    /\ ret.dates = <<>>

\* C13: without a firstBillDate both recurrence functions return (each call
\* of the model returns): getNextBillingDate a date on today's calendar day,
\* zero days from today, and getBillDatesInMonth the empty sequence
C13_MissingDateDegrades ==
    (op # "none" /\ sub.firstBillDate = <<>>) =>
        /\ op = "getNextBillingDate" =>
            /\ ret.date.y = now.y /\ ret.date.m = now.m /\ ret.date.d = now.d
            /\ getDaysRemaining(ret.date) = 0
        /\ op = "getBillDatesInMonth" => ret.dates = <<>>

\* getNextBillingDate has been called for an active subscription without a
\* firstBillDate, on a day that is not the first of its month
C13_Witness ==
    /\ op = "getNextBillingDate"
    /\ sub.firstBillDate = <<>>
    /\ sub.active
    /\ now.d # 1
    /\ ret.date = now

\* the values of a Date
Dates == [y : Int, m : 0..11, d : 1..31, t : 0..EndOfDay]

\* C14: a billing cycle outside the enumeration is rejected: for such a
\* subscription getNextBillingDate does not return a date and
\* getBillDatesInMonth does not return a list of dates, in particular not
\* today and not the empty list
C14_InvalidCycleRejected ==
    (op # "none" /\ sub.billingCycle \notin BillingCycle) =>
        /\ op = "getNextBillingDate" => ret.date \notin Dates
        /\ op = "getBillDatesInMonth" => ret.dates \notin Seq(Dates)

----------------------------------------------------------------------------
(* The recurrence functions in and after the month of the start *)

\* the occurrences of the current call's subscription in the month of its
\* start: the start itself, followed for WEEKLY by the later days of that
\* month at a whole number of weeks from it
OccurrencesInStartMonth ==
    IF sub.billingCycle = WEEKLY THEN WeekdaysFrom(Start, Start, 1) ELSE <<Start>>

----------------------------------------------------------------------------
(* The reminder message *)

\* C20: generateReminderMessage chooses the due-status phrase from daysLeft
\* alone: the "today" phrase exactly when daysLeft = 0 (never "0 days"), the
\* "overdue" phrase exactly when daysLeft < 0, the "in N days" phrase with
\* N = daysLeft exactly when daysLeft > 0; and the message carries the
\* subscription's name, currency and price
C20_DuePhrase ==
    (op = "generateReminderMessage") =>
        LET m == ret.message
            n == ret.daysLeft
        IN  /\ m.dueText = TodayText <=> n = 0
            /\ m.dueText = OverdueText <=> n < 0
            /\ m.dueText = InDaysText(n) <=> n > 0
            /\ m.dueText \in {TodayText, OverdueText, InDaysText(n)}
            /\ m.dueText # InDaysText(0)
            /\ m.name = sub.name
            /\ m.currency = sub.currency
            /\ m.price = sub.price

\* a message for a subscription due today
C20_Witness ==
    /\ op = "generateReminderMessage"
    /\ ret.daysLeft = 0
    /\ ret.message.dueText = TodayText
    /\ ret.message.name = "Netflix"

\* C17: a step creates a notification only when permission is granted, the
\* reminder list is non-empty and its first entry has daysLeft <= 3; the
\* notification is about that first entry, and a step creates at most one,
\* and only when it computed the list for the first time or changed it.
C17_NotifyOnlyWhenDue ==
    [][notification' # <<>> =>
          /\ Len(notification') = 1
          /\ permission' = "granted"
          /\ upcomingSubs' # <<>>
          /\ notification'[1].first = upcomingSubs'[1]
          /\ upcomingSubs'[1].daysLeft <= 3
          /\ upcomingSubs' # upcomingSubs]_vars

\* a notification was created for the first of several entries of the list
C17_Witness ==
    /\ notification # <<>>
    /\ permission = "granted"
    /\ Len(upcomingSubs) >= 2
    /\ notification[1].first = upcomingSubs[1]
    /\ upcomingSubs[1].daysLeft <= 3

\* C19: saving an edit replaces exactly the record with the edited id by the
\* submitted record, whose id is that id, and keeps the length, the order and
\* every other record; saving a new subscription appends exactly one record
\* and keeps every existing record.
C19_SaveReplacesOneOrAppends ==
    [][handleSubmit =>
          IF IsEditing
          THEN /\ Len(subscriptions') = Len(subscriptions)
               /\ \E k \in 1..Len(subscriptions) :
                     /\ subscriptions[k].id = editingSub[1].id
                     /\ subscriptions'[k] = SubmittedSub
                     /\ subscriptions'[k].id = subscriptions[k].id
                     /\ \A j \in 1..Len(subscriptions) :
                           j # k => subscriptions'[j] = subscriptions[j]
          ELSE /\ Len(subscriptions') = Len(subscriptions) + 1
               /\ subscriptions'[Len(subscriptions')] = SubmittedSub
               /\ \A j \in 1..Len(subscriptions) :
                     subscriptions'[j] = subscriptions[j]]_vars

\* the subscriptions of the collection that are active
ActiveOnly == SelectSeq(subscriptions, IsActive)

\* C18: once everything is rendered, no entry of the reminder list and no
\* calendar occurrence is an inactive subscription, the spending totals and
\* the category totals are those of the active subscriptions alone, and the
\* full list has exactly one entry for every subscription of the collection,
\* active or not.
C18_InactiveExcludedButListed ==
    op = "Render" =>
        /\ \A k \in 1..Len(upcomingSubs) : upcomingSubs[k].active
        /\ \A i \in 1..Len(subscriptions) :
              ~subscriptions[i].active =>
                  \A k \in 1..Len(upcomingSubs) :
                      upcomingSubs[k].id # subscriptions[i].id
        /\ ret.stats = stats(ActiveOnly)
        /\ \A key \in DOMAIN ret.subsByDate :
              \A k \in 1..Len(ret.subsByDate[key]) : ret.subsByDate[key][k].active
        /\ Len(ret.processedSubs) = Len(subscriptions)
        /\ \A i \in 1..Len(subscriptions) :
              \E k \in 1..Len(ret.processedSubs) :
                  /\ ret.processedSubs[k].id = i
                  /\ \A f \in DOMAIN subscriptions[i] :
                        ret.processedSubs[k][f] = subscriptions[i][f]

\* an inactive subscription that is due within the week and billed in the
\* month shown stands beside an active one that is counted and shown
C18_Witness ==
    /\ op = "Render"
    /\ \E i \in 1..Len(subscriptions) :
          /\ ~subscriptions[i].active
          /\ subscriptions[i].price > 0
          /\ DaysLeftOf(subscriptions[i]) \in 0..7
          /\ isSameMonth(parseISO(subscriptions[i].firstBillDate), anchor)
    /\ upcomingSubs # <<>>
    /\ ret.stats.monthlyTotal > 0
    /\ DOMAIN ret.subsByDate # {}
    /\ Len(ret.processedSubs) > Len(ActiveOnly)

\* the current call has the inputs of the remembered call
SameInputsAsSeen ==
    /\ seen # <<>>
    /\ seen[1].op = op
    /\ seen[1].sub = sub
    /\ op = "getBillDatesInMonth" => seen[1].anchor = anchor

C22_InputsUnchanged ==
    op = "getBillDatesInMonth" =>
        LET heap == ret.objects.heap
        IN  /\ heap["sub"] = sub
            /\ heap["currentMonth"] = anchor
            /\ "start" \in DOMAIN heap =>
                  /\ heap["start"] = parseISO(sub.firstBillDate)
                  /\ sub.billingCycle = MONTHLY =>
                        heap[ret.objects.date] = MonthlyStart(heap["start"], anchor)

\* a MONTHLY call that set both the year and the month on a working date
C22_Witness ==
    /\ op = "getBillDatesInMonth"
    /\ sub.billingCycle = MONTHLY
    /\ DOMAIN ret.objects.heap =
          {"sub", "currentMonth", "start", "line 72", "line 76"}
    /\ ret.objects.heap["line 76"] # ret.objects.heap["start"]
    /\ ret.dates # <<>>

\* the calendar day a firstBillDate string names, at local midnight
CalendarDay(str) == [y |-> str[1], m |-> str[2], d |-> str[3], t |-> 0]

\* C23: when firstBillDate names today or a later day, getNextBillingDate
\* makes no pass of its loop and returns the Date of firstBillDate, whatever
\* the billing cycle.
C23_NoAdvanceFromTodayOn ==
    /\ op = "getNextBillingDate"
    /\ sub.firstBillDate # <<>>
    /\ ~isBefore(CalendarDay(sub.firstBillDate), startOfToday)
    => /\ ret.iterations = 0
       /\ ret.date = parseISO(sub.firstBillDate)

\* C24: for an active subscription of one of the three cycles whose next
\* billing date is found in fewer than 1000 passes, that date is one of the
\* bill dates of its own month.
C24_NextDateIsBillDate ==
    /\ op = "getNextBillingDate, getBillDatesInMonth"
    /\ sub.active
    /\ sub.billingCycle \in BillingCycle
    /\ sub.firstBillDate # <<>>
    /\ ret.iterations < NextDateCap
    => \E k \in 1..Len(ret.dates) : ret.dates[k] = ret.date

\* C25: whatever the billing cycle, and whether firstBillDate is present or
\* missing, the number of days from today to the next billing date is never
\* negative.
C25_NeverOverdue ==
    (op = "getNextBillingDate") => ret.daysLeft >= 0

\* the cap stopped the loop and the fallback gives zero days left
C25_Witness ==
    /\ op = "getNextBillingDate"
    /\ ret.iterations >= NextDateCap
    /\ ret.daysLeft = 0

\* C26: once no request is pending, the insight shown is the empty string
\* for an empty collection and otherwise a response for the present
\* collection.
C26_InsightOfLatestCollection ==
    (mounted /\ insightRequests = <<>>) =>
        aiInsights \in (IF subscriptions = <<>> THEN {""}
                        ELSE Responses(subscriptions))

\* C27: at most one parse request is pending at any time, a request is
\* started only while isLoading is false and the trimmed input is not
\* empty, and once isLoading is true it becomes false again.
C27_OneRequestThenReset ==
    /\ [](parseRequests <= 1 /\ (isLoading <=> parseRequests = 1))
    /\ [][parseRequests' > parseRequests => ~isLoading /\ trim(input) # <<>>]_vars
    /\ (isLoading ~> ~isLoading)

\* a request is pending while the modal shows a text that could be analysed
C27_Witness ==
    /\ isSmartModalOpen
    /\ isLoading
    /\ parseRequests = 1
    /\ trim(input) # <<>>

\* C28: a parse request that fails sets an error message and keeps the
\* modal's visibility, the typed input, the collection and the form state;
\* a request that succeeds hands the parsed data, which has no id, to the
\* form, opens the form with the parsed fields filled in, closes the modal
\* and leaves the collection alone; a record is added only by submitting
\* the form.
C28_ParseOutcome ==
    [][ /\ (parseRequests' < parseRequests /\ error' # "") =>
              /\ parseRequests' = parseRequests - 1
              /\ isSmartModalOpen' = isSmartModalOpen
              /\ input' = input
              /\ subscriptions' = subscriptions
              /\ formVars' = formVars
        /\ (parseRequests' < parseRequests /\ error' = "") =>
              /\ parseRequests' = parseRequests - 1
              /\ editingSub' # <<>>
              /\ "id" \notin DOMAIN editingSub'[1]
              /\ isFormOpen'
              /\ \A f \in DOMAIN editingSub'[1] : formData'[f] = editingSub'[1][f]
              /\ ~isSmartModalOpen'
              /\ subscriptions' = subscriptions
        /\ Len(subscriptions') > Len(subscriptions) => isFormOpen /\ ~isFormOpen'
      ]_vars

\* the form is open on parsed data that differs from the form's defaults
C28_Witness ==
    /\ isFormOpen
    /\ editingSub # <<>>
    /\ "id" \notin DOMAIN editingSub[1]
    /\ editingSub[1].billingCycle # DefaultFormData.billingCycle
    /\ formData.billingCycle = editingSub[1].billingCycle
    /\ ~isSmartModalOpen
    /\ ~isLoading

C30_StorageFollowsCollection ==
    /\ ~mounted =>
          subscriptions = (IF storage = NoItem \/ storage = CorruptItem THEN <<>>
                           ELSE JSONparse(storage))
    /\ mounted =>
          /\ storage # NoItem
          /\ storage # CorruptItem
          /\ JSONparse(storage) = subscriptions

\* a record was added to a stored one and both are in local storage
C30_Witness ==
    /\ mounted
    /\ Len(subscriptions) > 1
    /\ uuid > 1
    /\ JSONparse(storage) = subscriptions

====
